---------------------------- MODULE Spec2Model ----------------------------
(***************************************************************************)
(* Fire Fit: the outfit operations of src/services/outfitAPI.js           *)
(* (uploadFile, analyzeFit, saveFit, getSavedFits, deleteOutfit), the      *)
(* Edge Functions they invoke and the mock analysis generator.            *)
(*                                                                         *)
(* Spec          : saveFit / getSavedFits / deleteOutfit calls of one       *)
(*                 caller, one after the other, over the Gateway table     *)
(*                 'outfits' and the localStorage key 'saved_outfits'.     *)
(* SpecUpload    : uploadFile calls over the bucket 'outfit-images'.       *)
(* SpecAnalyze   : analyzeFit calls (Edge Function reply, then the mock    *)
(*                 generator).                                             *)
(* SpecTiers     : analyzeFit, saveFit and getSavedFits calls of one       *)
(*                 caller while the Gateway comes and goes.                *)
(* SpecConcurrent: saveFit and deleteOutfit calls interleaved at their     *)
(*                 awaits.                                                 *)
(* SpecHang      : as SpecTiers, with Gateway calls that may never answer. *)
(***************************************************************************)
EXTENDS Integers, Sequences, FiniteSets, TLC

VARIABLES
    store,        \* rows of the Gateway table 'outfits', in insertion order
    inserted,     \* rows inserted so far (the next uuid)
    cache,        \* the value of localStorage['saved_outfits']
    clock,        \* Date.now()
    calls,        \* the outfitAPI calls in flight or returned, per call slot
    saves,        \* saveFit calls started so far (numbers their payloads)
    returned,     \* history: the records saveFit calls have returned
    deletedIds,   \* history: the ids a successful deleteOutfit was given
    bucket,       \* paths stored in the storage bucket 'outfit-images'
    up,           \* the uploadFile call
    an,           \* the analyzeFit call
    page          \* the state of UploadFitPage and its handleAnalyze flow

vars == <<store, inserted, cache, clock, calls, saves, returned, deletedIds,
          bucket, up, an, page>>

(***************************************************************************)
(* Bounds of the model.                                                    *)
(***************************************************************************)
MaxSaves == 2      \* saveFit calls started in one behaviour
MaxClock == 1      \* Date.now() runs over 0..MaxClock
MaxUploads == 2    \* files stored in one behaviour

Slots == {1, 2}                  \* outfitAPI calls that may be in flight at once
Sessions == {"s1", "s2"}         \* demo session ids

(***************************************************************************)
(* Records and ids.                                                        *)
(***************************************************************************)
\* a local id without the marker
LocalId_Unmarked(now) == [origin |-> "uuid", n |-> now]

\* `local_${Date.now()}`
LocalId(now) == [origin |-> "local_", n |-> now]

\* id UUID PRIMARY KEY DEFAULT gen_random_uuid()
Uuid(k) == [origin |-> "uuid", n |-> k]

\* outfitId.startsWith('local_')
StartsWithLocal(id) == id.origin = "local_"

NoId == [origin |-> "none", n |-> 0]
NoRec == [id |-> NoId, session_id |-> "none", content |-> 0, saved |-> FALSE,
          created_at |-> 0]

\* const outfitData = { session_id, ...payload fields, saved: true, created_at }
\* (content stands for the thirteen payload fields copied through unchanged)
OutfitData(session, content, now) ==
    [session_id |-> session, content |-> content, saved |-> TRUE, created_at |-> now]

\* { ...outfitData, id }
WithId(data, id) ==
    [id |-> id, session_id |-> data.session_id, content |-> data.content,
     saved |-> data.saved, created_at |-> data.created_at]

(***************************************************************************)
(* Sequences.                                                              *)
(***************************************************************************)
Range(s) == {s[i] : i \in 1..Len(s)}

Count(s, P(_)) == Cardinality({i \in 1..Len(s) : P(s[i])})

\* created_at is non-increasing along the list
NewestFirst(s) == \A i \in 1..Len(s) : \A j \in 1..Len(s) :
                      i < j => s[i].created_at >= s[j].created_at

Injective(f) == \A i \in DOMAIN f : \A j \in DOMAIN f : f[i] = f[j] => i = j

Orderings(s) == {[i \in 1..Len(s) |-> s[p[i]]] :
                    p \in {q \in [1..Len(s) -> 1..Len(s)] : Injective(q)}}

(***************************************************************************)
(* The Gateway table 'outfits'.                                            *)
(***************************************************************************)
\* .insert(outfitData).select().single()
DbInsert(rows, data, k) == Append(rows, WithId(data, Uuid(k)))

\* .select('*').eq('session_id', sessionId).eq('saved', true)
DbSelect(rows, sessionId) ==
    SelectSeq(rows, LAMBDA o : o.session_id = sessionId /\ o.saved = TRUE)

\* .order('created_at', { ascending: false }): rows with equal created_at come
\* in any order
DbQuery(rows, sessionId) ==
    {s \in Orderings(DbSelect(rows, sessionId)) : NewestFirst(s)}

\* .delete().eq('id', outfitId)
DbDelete(rows, id) == SelectSeq(rows, LAMBDA o : o.id # id)

(***************************************************************************)
(* localStorage['saved_outfits'].                                          *)
(***************************************************************************)
CacheAbsent == [kind |-> "absent", items |-> <<>>]
CacheBadJson == [kind |-> "badjson", items |-> <<>>]    \* not JSON text
CacheNotList == [kind |-> "notlist", items |-> <<>>]    \* JSON, not an array
CacheList(items) == [kind |-> "list", items |-> items]

\* JSON.parse(localStorage.getItem('saved_outfits') || '[]')
\* threw: JSON.parse raised; isArray: the parsed value has push and filter
ParseCache(c) ==
    CASE c.kind = "absent"  -> [threw |-> FALSE, isArray |-> TRUE, items |-> <<>>]
      [] c.kind = "list"    -> [threw |-> FALSE, isArray |-> TRUE, items |-> c.items]
      [] c.kind = "notlist" -> [threw |-> FALSE, isArray |-> FALSE, items |-> <<>>]
      [] c.kind = "badjson" -> [threw |-> TRUE, isArray |-> FALSE, items |-> <<>>]

\* a push that is forgotten
Push_Dropped(items, o) == items

\* localOutfits.push(localOutfit)
Push(items, o) == Append(items, o)

\* a local tier that writes back what it read before another call's write (here:
\* the empty list)
SaveLocal_Stale(c, data, now, writeOk) ==
    LET localOutfit == WithId(data, LocalId(now))
    IN  IF ~writeOk THEN [threw |-> TRUE, cache |-> c, rec |-> NoRec]
        ELSE [threw |-> FALSE, cache |-> CacheList(<<localOutfit>>), rec |-> localOutfit]

\* the localStorage tier of saveFit; writeOk: setItem accepted the value
\* (it raises QuotaExceededError when the storage refuses it)
SaveLocal(c, data, now, writeOk) ==
    LET parsed == ParseCache(c)
        localOutfit == WithId(data, LocalId(now))
    IN  IF parsed.threw \/ ~parsed.isArray \/ ~writeOk
        THEN [threw |-> TRUE, cache |-> c, rec |-> NoRec]
        ELSE [threw |-> FALSE, cache |-> CacheList(Push(parsed.items, localOutfit)),
              rec |-> localOutfit]

\* a local tier that returns every session's outfits
FilterSession_None(items, sessionId) == items

\* localOutfits.filter(outfit => outfit.session_id === sessionId)
FilterSession(items, sessionId) ==
    SelectSeq(items, LAMBDA o : o.session_id = sessionId)

\* a local tier that adds the Gateway's rows to the cached ones
FetchLocal_Merged(c, sessionId) ==
    LET parsed == ParseCache(c)
    IN  IF parsed.threw \/ ~parsed.isArray
        THEN [threw |-> TRUE, list |-> <<>>]
        ELSE [threw |-> FALSE,
              list |-> SelectSeq(store, LAMBDA o : o.session_id = sessionId)
                          \o FilterSession(parsed.items, sessionId)]

\* the localStorage tier of getSavedFits
FetchLocal(c, sessionId) ==
    LET parsed == ParseCache(c)
    IN  IF parsed.threw \/ ~parsed.isArray
        THEN [threw |-> TRUE, list |-> <<>>]
        ELSE [threw |-> FALSE, list |-> FilterSession(parsed.items, sessionId)]

\* localOutfits.filter(outfit => outfit.id !== outfitId)
FilterOutId(items, id) == SelectSeq(items, LAMBDA o : o.id # id)

\* the localStorage branch of deleteOutfit
DeleteLocal(c, id, writeOk) ==
    LET parsed == ParseCache(c)
    IN  IF parsed.threw \/ ~parsed.isArray \/ ~writeOk
        THEN [threw |-> TRUE, cache |-> c]
        ELSE [threw |-> FALSE, cache |-> CacheList(FilterOutId(parsed.items, id))]


(***************************************************************************)
(* The Edge Functions, as the client reaches them through                  *)
(* supabase.functions.invoke(name, { body }).                              *)
(***************************************************************************)
NullParam == "null"     \* a request field that is not there

\* what invoke sends: a POST with the JSON body and no query string
InvokeRequest(body) == [query_session_id |-> NullParam, body |-> body]

\* Deno.serve handler of getSavedFits: reads session_id from the URL query
GetSavedFitsHandler(req, rows) ==
    LET sessionId == req.query_session_id
    IN  IF sessionId = NullParam
        THEN {[status |-> 400, data |-> <<>>]}
        ELSE {[status |-> 200, data |-> s] : s \in DbQuery(rows, sessionId)}

\* Deno.serve handler of save-fit: validates session_id of the JSON body, inserts
\* a row stamped with its own created_at and answers with the row
SaveFitHandler(req, rows, k, now) ==
    LET p == req.body
    IN  IF p.session_id = NullParam
        THEN [status |-> 400, rows |-> rows, data |-> NoRec]
        ELSE LET outfitData == OutfitData(p.session_id, p.content, now)
             IN  [status |-> 200, rows |-> DbInsert(rows, outfitData, k),
                  data |-> WithId(outfitData, Uuid(k))]

\* outcomes of one Gateway call as the client sees them
FnOutcomes == {"error", "nodata", "handled"}   \* handled: the function ran and answered
DbOutcomes == {"error", "nodata", "ok"}

(***************************************************************************)
(* uploadFile(file, category, sessionId) and the bucket 'outfit-images'.   *)
(***************************************************************************)
Null == "null"          \* null, or a field that is absent

Categories == {"top", "topLayer", "bottom", "shoes", "accessories"}
FileNames == {"a b.png", "a_b.png", "c.png"}

\* file.name.replace(/[^a-zA-Z0-9.-]/g, '_')
Sanitize(name) == IF name = "a b.png" THEN "a_b.png" ELSE name

\* `${sessionId}/originals/${category}_${timestamp}_${sanitized name}`
FilePath(sessionId, category, now, name) ==
    [session |-> sessionId, category |-> category, timestamp |-> now,
     name |-> Sanitize(name)]

NoPath == [session |-> Null, category |-> Null, timestamp |-> 0, name |-> Null]

\* supabase.storage.from('outfit-images').getPublicUrl(filePath).publicUrl
PublicUrl(path) == [bucket |-> "outfit-images", path |-> path]

NoUrl == [bucket |-> Null, path |-> NoPath]

\* .upload(filePath, file, { cacheControl: '3600', upsert: false }): the storage
\* refuses a path it already holds
StorageUpload(paths, path, out) ==
    IF out = "ok" /\ path \notin paths
    THEN [error |-> FALSE, paths |-> paths \cup {path}]
    ELSE [error |-> TRUE, paths |-> paths]

UpIdle == [pc |-> "idle", file |-> Null, path |-> NoPath, storage |-> "none",
           threw |-> FALSE, url |-> NoUrl]

\* an upload that answers null when it fails, as uploadOutfitImage of
\* src/lib/storage.js does
UploadCatch_ReturnsNull(call) == [call EXCEPT !.pc = "done", !.threw = FALSE, !.url = NoUrl]

\* catch (error) { console.error(...); throw error }
UploadCatch(call) == [call EXCEPT !.pc = "done", !.threw = TRUE, !.url = NoUrl]

\* if (!file) throw new Error('No file provided'); else the storage call is made
UploadStart(file, category, sessionId) ==
    LET begun == [UpIdle EXCEPT !.pc = "run", !.file = file]
    IN  /\ up.pc \in {"idle", "done"}
        /\ up' = IF file = Null THEN UploadCatch(begun)
                 ELSE [begun EXCEPT !.path = FilePath(sessionId, category, clock, file)]
        /\ UNCHANGED <<store, inserted, cache, clock, calls, saves, returned, deletedIds, bucket, an, page>>

\* the storage call has answered: if (error) throw error; return the public URL
UploadReply(out) ==
    LET r == StorageUpload(bucket, up.path, out)
    IN  /\ up.pc = "run"
        /\ out = "ok" => Cardinality(bucket) < MaxUploads
        /\ bucket' = r.paths
        /\ up' = IF r.error THEN UploadCatch([up EXCEPT !.storage = "failed"])
                 ELSE [up EXCEPT !.pc = "done", !.storage = "stored",
                                 !.url = PublicUrl(up.path)]
        /\ UNCHANGED <<store, inserted, cache, clock, calls, saves, returned, deletedIds, an, page>>

(***************************************************************************)
(* The preset catalog (src/utils/seasonPresets.js).                        *)
(***************************************************************************)
Undefined == "undefined"    \* a parameter that is not passed

SEASON_PRESETS ==
    [Spring |-> [season |-> "Spring",
                 recommendedColors |-> <<"pastel pink", "mint green", "lavender", "cream">>,
                 recommendedAccessories |->
                     <<"sunglasses", "light scarf", "bracelet", "floral headband">>,
                 aesthetic |-> <<"floral", "airy", "layered", "fresh">>],
     Summer |-> [season |-> "Summer",
                 recommendedColors |-> <<"white", "bright yellow", "coral", "turquoise">>,
                 recommendedAccessories |->
                     <<"sunglasses", "beach hat", "sandals", "minimalist jewelry">>,
                 aesthetic |-> <<"beachy", "bright", "minimalist", "breezy">>],
     Fall |->   [season |-> "Fall",
                 recommendedColors |-> <<"rust", "olive", "burgundy", "mustard", "brown">>,
                 recommendedAccessories |->
                     <<"scarf", "beanie", "crossbody bag", "ankle boots">>,
                 aesthetic |-> <<"earthy", "layered", "cozy", "vintage">>],
     Winter |-> [season |-> "Winter",
                 recommendedColors |->
                     <<"gray", "navy", "black", "burgundy", "forest green">>,
                 recommendedAccessories |-> <<"scarf", "gloves", "beanie", "winter boots">>,
                 aesthetic |-> <<"cozy", "layered", "thermal", "minimalist">>]]

\* a lookup that ignores the season
getSeasonPreset_AlwaysSpring(seasonName) == SEASON_PRESETS.Spring

\* return SEASON_PRESETS[seasonName] || SEASON_PRESETS.Spring
getSeasonPreset(seasonName) ==
    IF seasonName \in DOMAIN SEASON_PRESETS THEN SEASON_PRESETS[seasonName]
    ELSE SEASON_PRESETS.Spring

(***************************************************************************)
(* The mock analysis generator (src/utils/mockAI.js).                      *)
(***************************************************************************)
topDescriptions ==
    [Spring |-> <<"floral blouse", "light cardigan", "pastel sweater", "cotton tee">>,
     Summer |-> <<"white tank top", "crop top", "linen shirt", "bright tee">>,
     Fall |->   <<"rust sweater", "olive button-up", "denim jacket", "cozy hoodie">>,
     Winter |-> <<"chunky knit sweater", "thermal top", "turtleneck", "fleece pullover">>]

topLayerDescriptions ==
    [Spring |-> <<"light denim jacket", "bomber jacket", "cardigan">>,
     Summer |-> <<"kimono", "sheer cover-up", "vest">>,
     Fall |->   <<"leather jacket", "oversized blazer", "wool coat">>,
     Winter |-> <<"puffer jacket", "parka", "peacoat", "trench coat">>]

bottomDescriptions ==
    [Spring |-> <<"light wash jeans", "floral skirt", "khaki pants", "midi skirt">>,
     Summer |-> <<"denim shorts", "white pants", "flowy skirt", "linen trousers">>,
     Fall |->   <<"dark jeans", "corduroy pants", "plaid skirt", "cargo pants">>,
     Winter |-> <<"black jeans", "wool trousers", "fleece-lined leggings", "thermal pants">>]

shoesDescriptions ==
    [Spring |-> <<"white sneakers", "canvas shoes", "loafers", "sandals">>,
     Summer |-> <<"slides", "espadrilles", "sandals", "white sneakers">>,
     Fall |->   <<"ankle boots", "combat boots", "sneakers", "oxfords">>,
     Winter |-> <<"winter boots", "Chelsea boots", "insulated sneakers", "hiking boots">>]

aestheticOptions ==
    [casual |-> <<"streetwear", "Y2K", "casual", "everyday", "relaxed">>,
     semi_formal |-> <<"smart casual", "chic", "polished", "refined">>,
     business_casual |-> <<"professional", "corporate", "minimalist", "classic">>,
     sports |-> <<"athletic", "sporty", "performance", "active">>]

\* the key of aestheticOptions a formality value names ('semi-formal' and
\* 'business-casual' are quoted keys)
FormalityKey(formality) ==
    CASE formality = "semi-formal" -> "semi_formal"
      [] formality = "business-casual" -> "business_casual"
      [] OTHER -> formality

Threw == "TypeError"

\* getRandomItem(table[season]): arr[Math.floor(Math.random() * arr.length)] is
\* any item of the list; arr.length raises when table[season] is undefined
getRandomItem(table, season) ==
    IF season \in DOMAIN table THEN Range(table[season]) ELSE {Threw}

\* a description invented for a slot that has no image
Describe_Always(url, table, season) == getRandomItem(table, season)

\* url ? getRandomItem(table[season]) : null
Describe(url, table, season) == IF url # Null THEN getRandomItem(table, season) ELSE {Null}

\* arr.slice(0, 2)
Slice2(arr) == SubSeq(arr, 1, IF Len(arr) < 2 THEN Len(arr) ELSE 2)

RECURSIVE Join(_, _)
\* parts.join(sep)
Join(parts, sep) ==
    IF parts = <<>> THEN ""
    ELSE IF Len(parts) = 1 THEN parts[1]
    ELSE parts[1] \o sep \o Join(Tail(parts), sep)

\* a description that is never empty
buildDescription_Placeholder(top, topLayer, bottom, shoes, accessories) ==
    IF top = Null /\ topLayer = Null /\ bottom = Null /\ shoes = Null
       /\ Len(accessories) = 0
    THEN "an outfit"
    ELSE Join(<<"outfit">>, ", ")

\* a description that names the bottom first
buildDescription_BottomFirst(top, topLayer, bottom, shoes, accessories) ==
    LET parts == (IF bottom # Null THEN <<bottom>> ELSE <<>>)
                 \o (IF top # Null THEN <<top>> ELSE <<>>)
                 \o (IF topLayer # Null THEN <<"with " \o topLayer>> ELSE <<>>)
                 \o (IF shoes # Null THEN <<shoes>> ELSE <<>>)
                 \o (IF Len(accessories) > 0
                     THEN <<"accessorized with " \o Join(accessories, ", ")>> ELSE <<>>)
    IN  Join(parts, ", ")

\* buildDescription({ top, topLayer, bottom, shoes, accessories })
buildDescription(top, topLayer, bottom, shoes, accessories) ==
    LET parts == (IF top # Null THEN <<top>> ELSE <<>>)
                 \o (IF topLayer # Null THEN <<"with " \o topLayer>> ELSE <<>>)
                 \o (IF bottom # Null THEN <<bottom>> ELSE <<>>)
                 \o (IF shoes # Null THEN <<shoes>> ELSE <<>>)
                 \o (IF Len(accessories) > 0
                     THEN <<"accessorized with " \o Join(accessories, ", ")>> ELSE <<>>)
    IN  Join(parts, ", ")

NoColors == [top |-> Null, topLayer |-> Null, bottom |-> Null, shoes |-> Null,
             accessories |-> Null]

NoAnalysis ==
    [top |-> Null, topLayer |-> Null, bottom |-> Null, shoes |-> Null,
     accessories |-> <<>>, aesthetic |-> <<>>, colors |-> NoColors,
     ai_description |-> Null, accessories_description |-> Null,
     accessories_tags |-> <<>>, ai_image_url |-> Null, season |-> Null,
     formality |-> Null, confidence |-> 0, timestamp |-> 0]

MockImageUrl == "data:image/svg+xml,..."

\* an accessories list that does not look at the slot
accessoriesList_Always(accessoriesUrl, seasonPreset) ==
    Slice2(seasonPreset.recommendedAccessories)

\* accessoriesUrl ? seasonPreset.recommendedAccessories.slice(0, 2) : []
accessoriesList(accessoriesUrl, seasonPreset) ==
    IF accessoriesUrl # Null THEN Slice2(seasonPreset.recommendedAccessories) ELSE <<>>

\* a candidate list that defaults to the sports tags
baseAesthetic_SportsDefault(formality) ==
    IF FormalityKey(formality) \in DOMAIN aestheticOptions
    THEN aestheticOptions[FormalityKey(formality)]
    ELSE aestheticOptions.sports

\* aestheticOptions[formality] || aestheticOptions.casual
baseAesthetic(formality) ==
    IF FormalityKey(formality) \in DOMAIN aestheticOptions
    THEN aestheticOptions[FormalityKey(formality)]
    ELSE aestheticOptions.casual

\* a palette handed out from its second color on
colors_Shifted(top, topLayer, bottom, shoes, accessories, seasonPreset) ==
    LET palette == seasonPreset.recommendedColors
    IN  [top |-> IF top # Null THEN palette[2] ELSE Null,
         topLayer |-> IF topLayer # Null THEN palette[3] ELSE Null,
         bottom |-> IF bottom # Null THEN palette[4] ELSE Null,
         shoes |-> IF shoes # Null THEN "neutral" ELSE Null,
         accessories |-> IF Len(accessories) > 0 THEN "mixed metals" ELSE Null]

\* const colors = { top: top ? seasonPreset.recommendedColors[0] : null, ... }
colors(top, topLayer, bottom, shoes, accessories, seasonPreset) ==
    LET palette == seasonPreset.recommendedColors
    IN  [top |-> IF top # Null THEN palette[1] ELSE Null,
         topLayer |-> IF topLayer # Null THEN palette[2] ELSE Null,
         bottom |-> IF bottom # Null THEN palette[3] ELSE Null,
         shoes |-> IF shoes # Null
                   THEN (IF Len(palette) >= 4 THEN palette[4] ELSE "neutral")
                   ELSE Null,
         accessories |-> IF Len(accessories) > 0 THEN "mixed metals" ELSE Null]

\* generateMockAnalysis({ topUrl, ..., season = 'Fall', formality = 'casual' }):
\* the outcomes it may have: a TypeError raised, or a value returned
generateMockAnalysis(a, now) ==
    LET season == IF a.season = Undefined THEN "Fall" ELSE a.season
        formality == IF a.formality = Undefined THEN "casual" ELSE a.formality
        seasonPreset == getSeasonPreset(season)
        tops == Describe(a.topUrl, topDescriptions, season)
        topLayers == Describe(a.topLayerUrl, topLayerDescriptions, season)
        bottoms == Describe(a.bottomUrl, bottomDescriptions, season)
        shoesSet == Describe(a.shoesUrl, shoesDescriptions, season)
        accessories == accessoriesList(a.accessoriesUrl, seasonPreset)
    IN  IF Threw \in tops \cup topLayers \cup bottoms \cup shoesSet
        THEN {[threw |-> TRUE, value |-> NoAnalysis]}
        ELSE {[threw |-> FALSE, value |->
              [top |-> top, topLayer |-> topLayer, bottom |-> bottom, shoes |-> shoes,
               accessories |-> accessories,
               aesthetic |-> Slice2(seasonPreset.aesthetic) \o <<tag>>,
               colors |-> colors(top, topLayer, bottom, shoes, accessories, seasonPreset),
               ai_description |->
                   buildDescription(top, topLayer, bottom, shoes, accessories),
               accessories_description |->
                   IF Len(accessories) > 0
                   THEN "Accessorized with " \o Join(accessories, " and ")
                   ELSE Null,
               accessories_tags |-> accessories,
               ai_image_url |-> MockImageUrl,
               season |-> season,
               formality |-> formality,
               confidence |-> 85,        \* 0.85, in hundredths
               timestamp |-> now]] :
                  top \in tops, topLayer \in topLayers, bottom \in bottoms,
                  shoes \in shoesSet, tag \in Range(baseAesthetic(formality))}

(***************************************************************************)
(* analyzeFit(payload) and the Edge Function 'analyze-fit'.                *)
(***************************************************************************)
Urls == {Null, "https://img"}
SeasonInputs == {"Spring", "Summer", "Fall", "Winter", "Autumn", Null, Undefined}
FormalityInputs == {"casual", "semi-formal", "business-casual", "sports", "formal",
                    Null, Undefined}

Payloads ==
    [session_id : {"s1"}, top_url : Urls, top_layer_url : Urls, bottom_url : Urls,
     shoes_url : Urls, accessories_url : Urls, season : SeasonInputs,
     formality : FormalityInputs]

NoPayload ==
    [session_id |-> Null, top_url |-> Null, top_layer_url |-> Null, bottom_url |-> Null,
     shoes_url |-> Null, accessories_url |-> Null, season |-> Null, formality |-> Null]

\* what the model answers: text that is no JSON, or the JSON object it was asked
\* for, with or without a top, a bottom and an ai_description
GeminiOutputs ==
    {[json |-> FALSE, top |-> Null, bottom |-> Null, ai_description |-> Null]}
    \cup [json : {TRUE}, top : {Null, "white tee"}, bottom : {Null, "light wash jeans"},
          ai_description : {Null, "A white tee."}]

\* Deno.serve handler of analyze-fit: 400 without session_id or without an image,
\* 500 when the model's text is no JSON, else the parsed object with timestamp and
\* ai_image_url (top_url || bottom_url || shoes_url) added
AnalyzeFitHandler(p, gemini, now) ==
    IF p.session_id = Null THEN [status |-> 400, data |-> NoAnalysis]
    ELSE IF \A u \in {p.top_url, p.top_layer_url, p.bottom_url, p.shoes_url,
                      p.accessories_url} : u = Null
    THEN [status |-> 400, data |-> NoAnalysis]
    ELSE IF ~gemini.json THEN [status |-> 500, data |-> NoAnalysis]
    ELSE [status |-> 200,
          data |-> [NoAnalysis EXCEPT
                       !.top = gemini.top,
                       !.bottom = gemini.bottom,
                       !.ai_description = gemini.ai_description,
                       !.season = p.season, !.formality = p.formality,
                       !.confidence = 85, !.timestamp = now,
                       !.ai_image_url = IF p.top_url # Null THEN p.top_url
                                        ELSE IF p.bottom_url # Null THEN p.bottom_url
                                        ELSE p.shoes_url]]

\* the { data, error } of a call that has not answered
NoReply == [error |-> FALSE, hasData |-> FALSE, data |-> NoAnalysis]

AnIdle == [pc |-> "idle", payload |-> NoPayload, reply |-> "none", threw |-> FALSE,
           tier |-> "none", result |-> NoAnalysis, replied |-> NoReply]

\* catch (error) { console.error(...); throw error }: the outer handler of
\* analyzeFit rethrows
AnalyzeOuterCatch(call) ==
    [call EXCEPT !.pc = "done", !.threw = TRUE, !.tier = "none", !.result = NoAnalysis]

\* data && (data.top || data.ai_description)
Descriptive(hasData, data) ==
    hasData /\ (data.top # Null \/ data.ai_description # Null)

\* invokes the Edge Function 'analyze-fit' with the payload as body
AnalyzeStart(payload) ==
    /\ an.pc = "idle"
    /\ an' = [AnIdle EXCEPT !.pc = "fn", !.payload = payload]
    /\ UNCHANGED <<store, inserted, cache, clock, calls, saves, returned, deletedIds, bucket, up, page>>

\* the reply of the Edge Function reaches analyzeFit: a descriptive reply is
\* returned; an error or an empty reply is caught and the mock delay starts
AnalyzeReply(out, gemini) ==
    LET h == AnalyzeFitHandler(an.payload, gemini, clock)
        error == out = "error" \/ (out = "handled" /\ h.status # 200)
        hasData == out = "handled" /\ h.status = 200
        got == [error |-> error, hasData |-> hasData,
                data |-> IF hasData THEN h.data ELSE NoAnalysis]
    IN  /\ an.pc = "fn"
        /\ out \in FnOutcomes
        /\ an' = IF ~error /\ Descriptive(hasData, h.data)
                 THEN [an EXCEPT !.pc = "done", !.tier = "fn", !.result = h.data,
                                 !.reply = "descriptive", !.replied = got]
                 ELSE [an EXCEPT !.pc = "delay", !.replied = got,
                                 !.reply = IF error THEN "error"
                                           ELSE IF hasData THEN "empty" ELSE "nodata"]
        /\ UNCHANGED <<store, inserted, cache, clock, calls, saves, returned, deletedIds, bucket, up, page>>

\* the arguments analyzeFit hands to generateMockAnalysis
MockArgs(p) ==
    [topUrl |-> p.top_url, topLayerUrl |-> p.top_layer_url, bottomUrl |-> p.bottom_url,
     shoesUrl |-> p.shoes_url, accessoriesUrl |-> p.accessories_url,
     season |-> p.season, formality |-> p.formality]

\* an analyzeFit that keeps its mock result in localStorage
AnalyzeMock_Persisted ==
    /\ an.pc = "delay"
    /\ \E r \in generateMockAnalysis(MockArgs(an.payload), clock) :
          an' = IF r.threw THEN AnalyzeOuterCatch(an)
                ELSE [an EXCEPT !.pc = "done", !.tier = "mock", !.result = r.value]
    /\ cache' = CacheList(Push(ParseCache(cache).items,
                               WithId(OutfitData(an.payload.session_id, 0, clock),
                                      LocalId(clock))))
    /\ UNCHANGED <<store, inserted, clock, calls, saves, returned, deletedIds, bucket, up, page>>

\* after simulateDelay(1500): generateMockAnalysis is called and its result
\* returned
AnalyzeMock ==
    /\ an.pc = "delay"
    /\ \E r \in generateMockAnalysis(MockArgs(an.payload), clock) :
          an' = IF r.threw THEN AnalyzeOuterCatch(an)
                ELSE [an EXCEPT !.pc = "done", !.tier = "mock", !.result = r.value]
    /\ UNCHANGED <<store, inserted, cache, clock, calls, saves, returned, deletedIds, bucket, up, page>>

\* the caller has taken the result (setAnalysis(result)) or the error
AnalyzeReturn ==
    /\ an.pc = "done"
    /\ an' = AnIdle
    /\ UNCHANGED <<store, inserted, cache, clock, calls, saves, returned, deletedIds, bucket, up, page>>

(***************************************************************************)
(* UploadFitPage: handleAnalyze uploads the selected images one after the  *)
(* other, then calls analyzeFit with the URLs it got.                      *)
(***************************************************************************)
\* Object.entries(uploads): the five slots in the order of the state object
SlotOrder == <<"top", "topLayer", "bottom", "shoes", "accessories">>

NoImagesMessage == "Please upload at least one image to analyze"
AnalyzeFailedMessage == "Failed to analyze outfit. Please try again."

PageIdle == [pc |-> "idle", uploads |-> {}, remaining |-> <<>>,
             urls |-> [k \in Categories |-> NoUrl], uploadFailed |-> {},
             error |-> Null, analysis |-> FALSE, analyzed |-> FALSE]

\* urls.top || null, as the string the payload carries
UrlOrNull(url) == IF url = NoUrl THEN Null ELSE "https://img"

\* the analysisPayload of handleAnalyze; season and formality are the page's
\* defaults 'Fall' and 'casual'
AnalysisPayload(urls) ==
    [session_id |-> "s1", top_url |-> UrlOrNull(urls.top),
     top_layer_url |-> UrlOrNull(urls.topLayer), bottom_url |-> UrlOrNull(urls.bottom),
     shoes_url |-> UrlOrNull(urls.shoes), accessories_url |-> UrlOrNull(urls.accessories),
     season |-> "Fall", formality |-> "casual"]

\* handleAnalyze is entered with the files of the slots in `files`: without a
\* file it sets the error and returns; else it clears error and analysis and
\* starts the loop over the slots
HandleAnalyzeStart(files) ==
    /\ page.pc \in {"idle", "done"}
    /\ up.pc \in {"idle", "done"}
    /\ an.pc \in {"idle", "done"}
    /\ IF files = {}
       THEN /\ page' = [page EXCEPT !.pc = "done", !.uploads = {}, !.uploadFailed = {},
                                    !.analyzed = FALSE, !.error = NoImagesMessage]
            /\ UNCHANGED <<up, an>>
       ELSE /\ page' = [PageIdle EXCEPT !.pc = "loop", !.uploads = files,
                           !.remaining = SelectSeq(SlotOrder, LAMBDA k : k \in files)]
            /\ up' = UpIdle
            /\ an' = AnIdle
    /\ UNCHANGED <<store, inserted, cache, clock, calls, saves, returned, deletedIds, bucket>>

\* const url = await uploadFile(file, category, sessionId) for the next slot
HandleAnalyzeUpload ==
    LET begun == [UpIdle EXCEPT !.pc = "run", !.file = "c.png"]
    IN  /\ page.pc = "loop"
        /\ page.remaining # <<>>
        /\ up' = [begun EXCEPT !.path = FilePath("s1", Head(page.remaining), clock, "c.png")]
        /\ page' = [page EXCEPT !.pc = "upload"]
        /\ UNCHANGED <<store, inserted, cache, clock, calls, saves, returned, deletedIds, bucket, an>>

\* urls[category] = url, or catch (uploadError) { console.error(...) } and the
\* loop continues with the other uploads
HandleAnalyzeUploaded ==
    LET category == Head(page.remaining)
    IN  /\ page.pc = "upload"
        /\ up.pc = "done"
        /\ page' = IF up.threw
                   THEN [page EXCEPT !.pc = "loop", !.remaining = Tail(page.remaining),
                                     !.uploadFailed = page.uploadFailed \cup {category}]
                   ELSE [page EXCEPT !.pc = "loop", !.remaining = Tail(page.remaining),
                                     !.urls[category] = up.url]
        /\ UNCHANGED <<store, inserted, cache, clock, calls, saves, returned, deletedIds, bucket, up, an>>

\* setUploadedUrls(urls); const result = await analyzeFit(analysisPayload)
HandleAnalyzeCall ==
    /\ page.pc = "loop"
    /\ page.remaining = <<>>
    /\ an' = [AnIdle EXCEPT !.pc = "fn", !.payload = AnalysisPayload(page.urls)]
    /\ page' = [page EXCEPT !.pc = "analyze", !.analyzed = TRUE]
    /\ UNCHANGED <<store, inserted, cache, clock, calls, saves, returned, deletedIds, bucket, up>>

\* setAnalysis(result), or catch (err) { setError(err.message || ...) }
HandleAnalyzeDone ==
    /\ page.pc = "analyze"
    /\ an.pc = "done"
    /\ page' = IF an.threw
               THEN [page EXCEPT !.pc = "done", !.error = AnalyzeFailedMessage]
               ELSE [page EXCEPT !.pc = "done", !.analysis = TRUE]
    /\ UNCHANGED <<store, inserted, cache, clock, calls, saves, returned, deletedIds, bucket, up, an>>

(***************************************************************************)
(* The calls of saveFit, getSavedFits and deleteOutfit.                    *)
(***************************************************************************)
Idle == [op |-> "idle", pc |-> "idle", data |-> OutfitData("none", 0, 0),
         session |-> "none", id |-> NoId, inflight |-> {}, attempts |-> <<>>,
         failed |-> {}, tier |-> "none", threw |-> FALSE, rec |-> NoRec,
         list |-> <<>>, ok |-> FALSE, prior |-> {}, gone |-> {}, held |-> {}]

Free(c) == calls[c].pc \in {"idle", "done"}

\* the tier the catch block of tier t goes on to
TierAfter(t) == IF t = "fn" THEN "db" ELSE "local"

\* a saveFit that goes on to the next tier whatever tier t answered
SaveTiersAfter_Always(t, didFail) == <<TierAfter(t)>>

\* the tiers saveFit goes on to when tier t has come back
SaveTiersAfter(t, didFail) == IF didFail THEN <<TierAfter(t)>> ELSE <<>>

\* the tiers getSavedFits goes on to when tier t has come back
FetchTiersAfter(t, didFail) == IF didFail THEN <<TierAfter(t)>> ELSE <<>>

\* history: the records of a session among those a tier holds
HeldBy(records, sessionId) == {o \in records : o.session_id = sessionId}

\* the records saveFit has returned whose id no deleteOutfit has removed
Live == {r \in returned : r.id \notin deletedIds}

\* a tier order that remembers an earlier failure of the remote function
FirstTier_Adaptive == IF \E r \in returned : StartsWithLocal(r.id) THEN "db" ELSE "fn"

\* the tier a call tries first: the outermost try block, whatever came before
FirstTier == "fn"

Init ==
    /\ store = <<>>
    /\ inserted = 0
    /\ cache \in {CacheAbsent, CacheBadJson, CacheNotList}
    /\ clock = 0
    /\ calls = [c \in Slots |-> Idle]
    /\ saves = 0
    /\ returned = {}
    /\ deletedIds = {}
    /\ bucket = {}
    /\ up = UpIdle
    /\ an = AnIdle
    /\ page = PageIdle

\* Date.now() advances between two steps
Tick ==
    /\ clock < MaxClock
    /\ clock' = clock + 1
    /\ UNCHANGED <<store, inserted, cache, calls, saves, returned, deletedIds, bucket, up, an, page>>

(***************************************************************************)
(* saveFit(payload)                                                        *)
(***************************************************************************)
\* catch (error) { ...; throw error }: the outer handler of saveFit rethrows
SaveOuterCatch(call) ==
    [call EXCEPT !.pc = "done", !.threw = TRUE, !.tier = "none", !.rec = NoRec,
                 !.failed = @ \cup {"local"}]

\* builds outfitData and invokes the Edge Function 'save-fit'
SaveStart(c, session) ==
    /\ Free(c)
    /\ saves < MaxSaves
    /\ saves' = saves + 1
    /\ calls' = [calls EXCEPT ![c] =
                    [Idle EXCEPT !.op = "save", !.pc = "run",
                                 !.data = OutfitData(session, saves + 1, clock),
                                 !.inflight = {FirstTier}, !.attempts = <<FirstTier>>]]
    /\ UNCHANGED <<store, inserted, cache, clock, returned, deletedIds, bucket, up, an, page>>

\* what the Gateway did with the request of tier t: the rows it holds now and the
\* { data, error } the client gets
SaveGateway(call, t, out) ==
    IF t = "fn" /\ out = "handled"
    THEN LET h == SaveFitHandler(InvokeRequest(call.data), store, inserted + 1, clock)
         IN  [rows |-> h.rows, error |-> h.status # 200, hasData |-> h.status = 200,
              data |-> h.data]
    ELSE IF t = "db" /\ out = "ok"
    THEN [rows |-> DbInsert(store, call.data, inserted + 1), error |-> FALSE,
          hasData |-> TRUE, data |-> WithId(call.data, Uuid(inserted + 1))]
    ELSE [rows |-> store, error |-> out = "error", hasData |-> FALSE, data |-> NoRec]

\* the reply of Gateway tier t reaches saveFit: if (error) throw; data.id; return
\* data; the catch block goes on to the next tier, the last one being localStorage
SaveReply(c, t, out, writeOk) ==
    LET call == calls[c]
        g == SaveGateway(call, t, out)
        success == ~g.error /\ g.hasData
        next == SaveTiersAfter(t, ~success)
        startDb == \E i \in 1..Len(next) : next[i] = "db"
        runLocal == \E i \in 1..Len(next) : next[i] = "local"
        l == SaveLocal(cache, call.data, clock, writeOk)
        moved == [call EXCEPT !.inflight = (@ \ {t}) \cup (IF startDb THEN {"db"} ELSE {}),
                              !.attempts = @ \o next,
                              !.failed = IF success THEN @ ELSE @ \cup {t}]
        after == IF success
                 THEN [moved EXCEPT !.pc = "done", !.tier = t, !.rec = g.data]
                 ELSE IF runLocal
                 THEN IF l.threw THEN SaveOuterCatch(moved)
                      ELSE [moved EXCEPT !.pc = "done", !.tier = "local", !.rec = l.rec]
                 ELSE moved
    IN  /\ call.op = "save"
        /\ call.pc = "run"
        /\ t \in call.inflight
        /\ out \in (IF t = "fn" THEN FnOutcomes ELSE DbOutcomes)
        /\ store' = g.rows
        /\ inserted' = inserted + Len(g.rows) - Len(store)
        /\ cache' = IF runLocal THEN l.cache ELSE cache
        /\ calls' = [calls EXCEPT ![c] = after]
        /\ returned' = IF after.pc = "done" /\ ~after.threw
                       THEN returned \cup {after.rec} ELSE returned
        /\ UNCHANGED <<clock, saves, deletedIds, bucket, up, an, page>>

(***************************************************************************)
(* getSavedFits(sessionId)                                                 *)
(***************************************************************************)
\* an outer handler that rethrows, as those of saveFit and analyzeFit do
FetchOuterCatch_Rethrow(call) ==
    [call EXCEPT !.pc = "done", !.threw = TRUE, !.tier = "none", !.list = <<>>,
                 !.failed = @ \cup {"local"}]

\* catch (error) { ...; return [] }: the outer handler of getSavedFits
FetchOuterCatch(call) ==
    [call EXCEPT !.pc = "done", !.threw = FALSE, !.tier = "none", !.list = <<>>,
                 !.failed = @ \cup {"local"}]

\* invokes the Edge Function 'getSavedFits' with body { session_id: sessionId }
FetchStart(c, session) ==
    /\ Free(c)
    /\ calls' = [calls EXCEPT ![c] =
                    [Idle EXCEPT !.op = "fetch", !.pc = "run", !.session = session,
                                 !.inflight = {FirstTier}, !.attempts = <<FirstTier>>,
                                 !.prior = Live, !.gone = deletedIds]]
    /\ UNCHANGED <<store, inserted, cache, clock, saves, returned, deletedIds, bucket, up, an, page>>

\* the { data, error } replies tier t may give to getSavedFits
FetchGateway(call, t, out) ==
    IF t = "fn" /\ out = "handled"
    THEN {[error |-> h.status # 200, hasData |-> h.status = 200, data |-> h.data] :
             h \in GetSavedFitsHandler(InvokeRequest([session_id |-> call.session]), store)}
    ELSE IF t = "db" /\ out = "ok"
    THEN {[error |-> FALSE, hasData |-> TRUE, data |-> s] :
             s \in DbQuery(store, call.session)}
    ELSE {[error |-> out = "error", hasData |-> FALSE, data |-> <<>>]}

\* the reply of Gateway tier t reaches getSavedFits: if (error) throw;
\* data.length; return data; the catch block goes on to the next tier
FetchReply(c, t, out) ==
    LET call == calls[c]
    IN  /\ call.op = "fetch"
        /\ call.pc = "run"
        /\ t \in call.inflight
        /\ out \in (IF t = "fn" THEN FnOutcomes ELSE DbOutcomes)
        /\ \E g \in FetchGateway(call, t, out) :
              LET success == ~g.error /\ g.hasData
                  next == FetchTiersAfter(t, ~success)
                  startDb == \E i \in 1..Len(next) : next[i] = "db"
                  runLocal == \E i \in 1..Len(next) : next[i] = "local"
                  l == FetchLocal(cache, call.session)
                  moved == [call EXCEPT
                               !.inflight = (@ \ {t}) \cup (IF startDb THEN {"db"} ELSE {}),
                               !.attempts = @ \o next,
                               !.failed = IF success THEN @ ELSE @ \cup {t}]
              IN  calls' = [calls EXCEPT ![c] =
                     IF success
                     THEN [moved EXCEPT !.pc = "done", !.tier = t, !.list = g.data,
                                        !.held = HeldBy(Range(store), call.session)]
                     ELSE IF runLocal
                     THEN IF l.threw THEN FetchOuterCatch(moved)
                          ELSE [moved EXCEPT !.pc = "done", !.tier = "local",
                                   !.list = l.list,
                                   !.held = HeldBy(Range(cache.items), call.session)]
                     ELSE moved]
        /\ UNCHANGED <<store, inserted, cache, clock, saves, returned, deletedIds, bucket, up, an, page>>

(***************************************************************************)
(* deleteOutfit(outfitId)                                                  *)
(***************************************************************************)
\* if (!outfitId.startsWith('local_')) { Gateway delete } else localStorage
DeleteBranch(id) == IF ~StartsWithLocal(id) THEN "db" ELSE "local"

\* a handler that rethrows, as those of saveFit and analyzeFit do
DeleteCatch_Rethrow(call) == [call EXCEPT !.pc = "done", !.ok = FALSE, !.threw = TRUE]

\* catch (error) { ...; return false }
DeleteCatch(call) == [call EXCEPT !.pc = "done", !.ok = FALSE, !.threw = FALSE]

\* the ids a caller may hold: those of the records around, and two of no record
KnownIds == {o.id : o \in Range(store)} \cup {o.id : o \in Range(cache.items)}
               \cup {LocalId(0), Uuid(0)}

DeleteStart(c, id, writeOk) ==
    LET branch == DeleteBranch(id)
        l == DeleteLocal(cache, id, writeOk)
        begun == [Idle EXCEPT !.op = "delete", !.pc = "run", !.id = id,
                              !.attempts = <<branch>>]
    IN  /\ Free(c)
        /\ id \in KnownIds
        /\ IF branch = "db"
           THEN /\ calls' = [calls EXCEPT ![c] = [begun EXCEPT !.inflight = {"db"}]]
                /\ UNCHANGED <<cache, deletedIds, page>>
           ELSE /\ calls' = [calls EXCEPT ![c] =
                       IF l.threw THEN DeleteCatch(begun)
                       ELSE [begun EXCEPT !.pc = "done", !.ok = TRUE, !.tier = "local"]]
                /\ cache' = l.cache
                /\ deletedIds' = IF l.threw THEN deletedIds ELSE deletedIds \cup {id}
        /\ UNCHANGED <<store, inserted, clock, saves, returned, bucket, up, an, page>>

\* the reply of the Gateway delete: if (error) throw error; return true
DeleteReply(c, out) ==
    LET call == calls[c]
    IN  /\ call.op = "delete"
        /\ call.pc = "run"
        /\ "db" \in call.inflight
        /\ out \in {"error", "ok"}
        /\ store' = IF out = "ok" THEN DbDelete(store, call.id) ELSE store
        /\ calls' = [calls EXCEPT ![c] =
               IF out = "error"
               THEN DeleteCatch([call EXCEPT !.inflight = {}, !.failed = {"db"}])
               ELSE [call EXCEPT !.pc = "done", !.ok = TRUE, !.tier = "db",
                                 !.inflight = {}]]
        /\ deletedIds' = IF out = "ok" THEN deletedIds \cup {call.id} ELSE deletedIds
        /\ UNCHANGED <<inserted, cache, clock, saves, returned, bucket, up, an, page>>

(***************************************************************************)
(* A Gateway call that never answers.                                      *)
(***************************************************************************)
\* the Gateway call a saveFit, getSavedFits or deleteOutfit call awaits never
\* settles: the await has no timeout, so the call stays suspended at it
GatewayHangs(c) ==
    /\ calls[c].pc = "run"
    /\ calls[c].inflight # {}
    /\ calls' = [calls EXCEPT ![c].pc = "hung"]
    /\ UNCHANGED <<store, inserted, cache, clock, saves, returned, deletedIds, bucket, up, an, page>>

\* the invoke of 'analyze-fit' never settles
AnalyzeHangs ==
    /\ an.pc = "fn"
    /\ an' = [an EXCEPT !.pc = "hung"]
    /\ UNCHANGED <<store, inserted, cache, clock, calls, saves, returned, deletedIds, bucket, up, page>>

(***************************************************************************)
(* The specification of the save / fetch / delete calls.                   *)
(***************************************************************************)
\* one call after the other: the caller awaits each call before the next
Sequential == {1}

Next ==
    \/ Tick
    \/ \E c \in Sequential, s \in Sessions : SaveStart(c, s)
    \/ \E c \in Sequential, t \in {"fn", "db"}, out \in FnOutcomes \cup DbOutcomes,
          w \in BOOLEAN : SaveReply(c, t, out, w)
    \/ \E c \in Sequential, s \in Sessions : FetchStart(c, s)
    \/ \E c \in Sequential, t \in {"fn", "db"}, out \in FnOutcomes \cup DbOutcomes :
          FetchReply(c, t, out)
    \/ \E c \in Sequential, id \in KnownIds, w \in BOOLEAN : DeleteStart(c, id, w)
    \/ \E c \in Sequential, out \in {"error", "ok"} : DeleteReply(c, out)

Spec == Init /\ [][Next]_vars

(***************************************************************************)
(* The specification of the uploadFile calls.                              *)
(***************************************************************************)
InitUpload == Init /\ cache = CacheAbsent

NextUpload ==
    \/ Tick
    \/ \E f \in FileNames \cup {Null}, k \in Categories : UploadStart(f, k, "s1")
    \/ \E out \in {"error", "ok"} : UploadReply(out)

SpecUpload == InitUpload /\ [][NextUpload]_vars

(***************************************************************************)
(* The specification of the analyzeFit calls.                              *)
(***************************************************************************)
InitAnalyze == Init /\ cache = CacheAbsent

NextAnalyze ==
    \/ an.pc = "idle" /\ \E p \in Payloads : AnalyzeStart(p)
    \/ \E out \in FnOutcomes, g \in GeminiOutputs : AnalyzeReply(out, g)
    \/ AnalyzeMock
    \/ AnalyzeReturn

SpecAnalyze == InitAnalyze /\ [][NextAnalyze]_vars

(***************************************************************************)
(* The specification of saveFit and deleteOutfit calls running             *)
(* concurrently in one page, interleaved at their awaits.                  *)
(***************************************************************************)
NextConcurrent ==
    \/ Tick
    \/ \E c \in Slots : SaveStart(c, "s1")
    \/ \E c \in Slots, t \in {"fn", "db"}, out \in FnOutcomes \cup DbOutcomes,
          w \in BOOLEAN : SaveReply(c, t, out, w)
    \/ \E c \in Slots, id \in {i \in KnownIds : StartsWithLocal(i)}, w \in BOOLEAN :
          DeleteStart(c, id, w)

SpecConcurrent == Init /\ [][NextConcurrent]_vars

(***************************************************************************)
(* The specification of one caller that issues analyzeFit, saveFit and     *)
(* getSavedFits calls one after the other while the Gateway comes and goes.*)
(***************************************************************************)
\* the payloads of an outfit with accessories only
TierPayloads ==
    {p \in Payloads : /\ p.top_url = Null /\ p.top_layer_url = Null
                      /\ p.bottom_url = Null /\ p.shoes_url = Null
                      /\ p.accessories_url # Null
                      /\ p.season = "Fall" /\ p.formality = "sports"}

NextTiers ==
    \/ an.pc = "idle" /\ SaveStart(1, "s1")
    \/ \E t \in {"fn", "db"}, out \in FnOutcomes \cup DbOutcomes, w \in BOOLEAN :
          SaveReply(1, t, out, w)
    \/ an.pc = "idle" /\ FetchStart(1, "s1")
    \/ \E t \in {"fn", "db"}, out \in FnOutcomes \cup DbOutcomes : FetchReply(1, t, out)
    \/ Free(1) /\ \E p \in TierPayloads : AnalyzeStart(p)
    \/ \E out \in FnOutcomes, g \in GeminiOutputs : AnalyzeReply(out, g)
    \/ AnalyzeMock
    \/ AnalyzeReturn

SpecTiers == Init /\ [][NextTiers]_vars

(***************************************************************************)
(* The specification of one caller that analyzes, saves, fetches and       *)
(* deletes, one call after the other.                                      *)
(***************************************************************************)
NextCacheOps ==
    \/ an.pc = "idle" /\ SaveStart(1, "s1")
    \/ \E t \in {"fn", "db"}, out \in FnOutcomes \cup DbOutcomes, w \in BOOLEAN :
          SaveReply(1, t, out, w)
    \/ an.pc = "idle" /\ FetchStart(1, "s1")
    \/ \E t \in {"fn", "db"}, out \in FnOutcomes \cup DbOutcomes : FetchReply(1, t, out)
    \/ an.pc = "idle" /\ \E id \in KnownIds, w \in BOOLEAN : DeleteStart(1, id, w)
    \/ \E out \in {"error", "ok"} : DeleteReply(1, out)
    \/ Free(1) /\ \E p \in TierPayloads : AnalyzeStart(p)
    \/ \E out \in FnOutcomes, g \in GeminiOutputs : AnalyzeReply(out, g)
    \/ AnalyzeMock
    \/ AnalyzeReturn

SpecCacheOps == Init /\ [][NextCacheOps]_vars

(***************************************************************************)
(* The specification of one caller whose Gateway calls may never answer:   *)
(* a Gateway call that does not hang answers in the end, and the code that *)
(* follows an answer runs.                                                 *)
(***************************************************************************)
NextHang ==
    \/ an.pc = "idle" /\ SaveStart(1, "s1")
    \/ \E t \in {"fn", "db"}, out \in FnOutcomes \cup DbOutcomes, w \in BOOLEAN :
          SaveReply(1, t, out, w)
    \/ an.pc = "idle" /\ FetchStart(1, "s1")
    \/ \E t \in {"fn", "db"}, out \in FnOutcomes \cup DbOutcomes : FetchReply(1, t, out)
    \/ GatewayHangs(1)
    \/ Free(1) /\ \E p \in TierPayloads : AnalyzeStart(p)
    \/ \E out \in FnOutcomes, g \in GeminiOutputs : AnalyzeReply(out, g)
    \/ AnalyzeHangs
    \/ AnalyzeMock
    \/ AnalyzeReturn

SpecHang == Init /\ [][NextHang]_vars /\ WF_vars(NextHang)

(***************************************************************************)
(* The upload page: handleAnalyze with its uploads and its analysis.       *)
(***************************************************************************)
InitPage == Init /\ cache = CacheAbsent

\* the slots the user has put a file in when Analyze is pressed
Selections == {{}, {"top"}, {"bottom", "shoes"}, {"top", "accessories"},
               {"top", "topLayer", "bottom"}}

NextPage ==
    \/ \E files \in Selections : HandleAnalyzeStart(files)
    \/ HandleAnalyzeUpload
    \/ \E out \in {"ok", "error"} : page.pc = "upload" /\ UploadReply(out)
    \/ HandleAnalyzeUploaded
    \/ HandleAnalyzeCall
    \/ \E out \in FnOutcomes, gemini \in GeminiOutputs :
          page.pc = "analyze" /\ AnalyzeReply(out, gemini)
    \/ page.pc = "analyze" /\ AnalyzeMock
    \/ HandleAnalyzeDone
    \/ Tick

SpecPage == InitPage /\ [][NextPage]_vars

(***************************************************************************)
(* Properties of saveFit, getSavedFits and deleteOutfit (under Spec).      *)
(***************************************************************************)
SaveDone(c) == calls[c].op = "save" /\ calls[c].pc = "done"
FetchDone(c) == calls[c].op = "fetch" /\ calls[c].pc = "done"
DeleteDone(c) == calls[c].op = "delete" /\ calls[c].pc = "done"

IsPrefix(s, t) == Len(s) <= Len(t) /\ \A i \in 1..Len(s) : s[i] = t[i]

\* how often the list holds the content of record r
Occurrences(list, r) == Count(list, LAMBDA o : o.content = r.content)

\* C2: saveFit never rejects: whatever the two Gateway save tiers answer and
\* whatever localStorage['saved_outfits'] holds or accepts, a saveFit call that
\* has ended has resolved with a record that carries an id.
C2_SaveNeverRejects ==
    \A c \in Slots : SaveDone(c) => ~calls[c].threw /\ calls[c].rec.id # NoId

\* C3: getSavedFits never rejects: a getSavedFits call that has ended has
\* resolved, and with the empty list when all three tiers failed.
C3_FetchNeverRejects ==
    \A c \in Slots : FetchDone(c) =>
        /\ ~calls[c].threw
        /\ {"fn", "db", "local"} \subseteq calls[c].failed => calls[c].list = <<>>

\* a getSavedFits call has ended after its three tiers failed
C3_Witness ==
    \E c \in Slots : FetchDone(c) /\ calls[c].failed = {"fn", "db", "local"}
                        /\ calls[c].attempts = <<"fn", "db", "local">>

\* C5: within one saveFit call the tiers run in the order remote function, direct
\* insert, localStorage; a tier is started only after the one before it has come
\* back failed; at most one tier is in flight; after a tier has succeeded no later
\* tier is attempted; at most one tier persists the call's record.
C5_SaveTiersSequential ==
    \A c \in Slots : calls[c].op = "save" =>
        LET call == calls[c]
            n == Len(call.attempts)
        IN  /\ IsPrefix(call.attempts, <<"fn", "db", "local">>)
            /\ \A k \in 2..n : call.attempts[k - 1] \in call.failed
            /\ Cardinality(call.inflight) <= 1
            /\ call.inflight # {} => call.pc = "run" /\ call.inflight = {call.attempts[n]}
            /\ call.tier # "none" =>
                  /\ call.attempts[n] = call.tier
                  /\ call.inflight = {}
                  /\ call.tier \notin call.failed
            /\ Occurrences(store, call.data) + Occurrences(cache.items, call.data) <= 1

\* a saveFit call has gone through its three tiers and the last one persisted
C5_Witness ==
    \E c \in Slots : /\ SaveDone(c)
                     /\ calls[c].tier = "local"
                     /\ calls[c].attempts = <<"fn", "db", "local">>
                     /\ Occurrences(cache.items, calls[c].data) = 1

\* the tier that served getSavedFits reads the store that holds record r
ServedFromStoreOf(call, r) ==
    IF StartsWithLocal(r.id) THEN call.tier = "local" ELSE call.tier \in {"fn", "db"}

\* C6 as stated: a getSavedFits(s) that follows a saveFit of a record of session s
\* (not deleted in between) returns that record's content exactly once, whichever
\* tier saved it and whatever the Gateway tiers answer to the later call.
C6_Original ==
    \A c \in Slots : FetchDone(c) =>
        \A r \in calls[c].prior :
            r.session_id = calls[c].session /\ r.id \notin deletedIds
                => Occurrences(calls[c].list, r) = 1

\* C6 as amended: a getSavedFits(s) that follows a saveFit of a record of
\* session s (not deleted in between) returns that record's content exactly once
\* when the tier that serves it reads the store the record was saved to: a
\* Gateway tier for a record a Gateway tier saved, localStorage for a local_ one.
C6_SavedThenFetched ==
    \A c \in Slots : FetchDone(c) =>
        \A r \in calls[c].prior :
            /\ r.session_id = calls[c].session
            /\ r.id \notin deletedIds
            /\ ServedFromStoreOf(calls[c], r)
            => Occurrences(calls[c].list, r) = 1

\* getSavedFits has returned, from either store, a list with a record saved before
C6_Witness ==
    /\ \E c \in Slots : /\ FetchDone(c) /\ calls[c].tier = "local"
                        /\ \E r \in calls[c].prior :
                              /\ r.session_id = calls[c].session
                              /\ StartsWithLocal(r.id)
                              /\ Occurrences(calls[c].list, r) = 1
    /\ \E r \in returned : ~StartsWithLocal(r.id)

\* C7: when both Gateway save tiers fail, saveFit returns a record whose id starts
\* with 'local_', and a getSavedFits for the same session that follows returns
\* that record.
C7_LocalSaveThenFetched ==
    /\ \A c \in Slots : SaveDone(c) /\ {"fn", "db"} \subseteq calls[c].failed =>
          ~calls[c].threw /\ StartsWithLocal(calls[c].rec.id)
    /\ \A c \in Slots : FetchDone(c) =>
          \A r \in calls[c].prior :
              /\ StartsWithLocal(r.id)
              /\ r.session_id = calls[c].session
              /\ r.id \notin deletedIds
              => r \in Range(calls[c].list)

\* C8: every record getSavedFits(sessionId) returns has that session_id, and
\* every record of the session that the serving tier held is in the list.
C8_FilteredBySession ==
    \A c \in Slots : FetchDone(c) =>
        /\ \A o \in Range(calls[c].list) : o.session_id = calls[c].session
        /\ calls[c].tier # "none" => calls[c].held \subseteq Range(calls[c].list)

\* getSavedFits has been served from localStorage while it held records of the
\* session asked for and of another one
C8_Witness ==
    \E c \in Slots : /\ FetchDone(c) /\ calls[c].tier = "local"
                     /\ calls[c].list # <<>>
                     /\ \E o \in Range(cache.items) : o.session_id # calls[c].session

\* C9: the list getSavedFits returns is ordered newest-first by created_at,
\* whichever tier served it.
C9_NewestFirst ==
    \A c \in Slots : FetchDone(c) => NewestFirst(calls[c].list)

\* C10: deleteOutfit(id) with a 'local_' id makes no Gateway call, removes the
\* record with that id from localStorage, returns true, and no later
\* getSavedFits includes a record with that id.
C10_DeleteLocal ==
    /\ \A c \in Slots : DeleteDone(c) /\ StartsWithLocal(calls[c].id) =>
          /\ calls[c].attempts = <<"local">>
          /\ calls[c].ok
    /\ \A c \in Slots : FetchDone(c) =>
          \A o \in Range(calls[c].list) :
              ~(StartsWithLocal(o.id) /\ o.id \in calls[c].gone)

\* C15: provenance: every record in localStorage['saved_outfits'] has a 'local_'
\* id; a record saveFit returns has a 'local_' id exactly when the localStorage
\* tier persisted it; and when the first N tiers of a call failed, the record
\* returned is the one tier N+1 produced and stored.
C15_Provenance ==
    /\ \A o \in Range(cache.items) : StartsWithLocal(o.id)
    /\ \A o \in Range(store) : ~StartsWithLocal(o.id)
    /\ \A r \in returned : r.id # NoId
    /\ \A c \in Slots : SaveDone(c) /\ ~calls[c].threw =>
          LET call == calls[c]
              n == Cardinality(call.failed)
          IN  /\ StartsWithLocal(call.rec.id) <=> call.tier = "local"
              /\ call.failed = {<<"fn", "db", "local">>[k] : k \in 1..n}
              /\ call.tier = <<"fn", "db", "local">>[n + 1]
              /\ call.tier = "local" => call.rec \in Range(cache.items)
              /\ call.tier \in {"fn", "db"} => call.rec \in Range(store)
              /\ call.rec.session_id = call.data.session_id
              /\ call.rec.content = call.data.content

\* the remote function failed and the direct insert produced the record, while
\* localStorage holds records of earlier calls
C15_Witness ==
    \E c \in Slots : /\ SaveDone(c) /\ calls[c].failed = {"fn"} /\ calls[c].tier = "db"
                     /\ cache.items # <<>>

\* C17: record ids are unique: no two records in localStorage['saved_outfits']
\* share an id, also when two saveFit calls reach the local tier without the clock
\* advancing between them.
C17_UniqueLocalIds ==
    \A i \in 1..Len(cache.items) : \A j \in 1..Len(cache.items) :
        cache.items[i].id = cache.items[j].id => i = j

C1_AnalyzeNeverRejects ==
    an.pc = "done" => ~an.threw /\ an.tier \in {"fn", "mock"}


\* C11: deleteOutfit(id) with an id that does not start with 'local_' attempts the
\* Gateway delete only, never rejects, returns true exactly when the Gateway
\* delete reported no error, and none of its steps changes
\* localStorage['saved_outfits'].
C11_DeleteGatewayOnly ==
    /\ [](\A c \in Slots : calls[c].op = "delete" /\ ~StartsWithLocal(calls[c].id) =>
             /\ calls[c].attempts = <<"db">>
             /\ ~calls[c].threw
             /\ calls[c].pc = "done" => (calls[c].ok <=> "db" \notin calls[c].failed))
    /\ [][\A c \in Slots :
              /\ calls'[c].op = "delete"
              /\ ~StartsWithLocal(calls'[c].id)
              /\ calls'[c] # calls[c]
              => cache' = cache]_vars

\* a Gateway delete has failed while localStorage held records
C11_Witness ==
    \E c \in Slots : /\ DeleteDone(c) /\ ~StartsWithLocal(calls[c].id)
                     /\ "db" \in calls[c].failed /\ ~calls[c].ok
                     /\ cache.items # <<>>


\* the reply has a garment description for some slot or an overall description
AnyDescriptive(r) ==
    /\ r.hasData
    /\ \/ r.data.top # Null
       \/ r.data.topLayer # Null
       \/ r.data.bottom # Null
       \/ r.data.shoes # Null
       \/ r.data.ai_description # Null

\* C12: analyzeFit returns the reply of 'analyze-fit' unchanged exactly when the
\* reply carries no error and has a descriptive field (a garment description for
\* any slot, or an overall description); otherwise it returns the result of the
\* mock generator.
C12_ReplyIffDescriptive ==
    an.pc = "done" /\ ~an.threw =>
        /\ an.tier = "fn" <=> ~an.replied.error /\ AnyDescriptive(an.replied)
        /\ an.tier = "fn" => an.result = an.replied.data
        /\ an.tier # "fn" => an.tier = "mock"


(***************************************************************************)
(* Properties of the tier order across calls (under SpecTiers).            *)
(***************************************************************************)
\* C13: tier selection is stateless across calls: whatever calls and tier
\* failures came before, a saveFit or getSavedFits call tries the remote function
\* first and analyzeFit gets the answer of 'analyze-fit' before anything else, so
\* a call is served by the first Gateway tier that answers it.
C13_TiersFromTheTop ==
    /\ \A c \in Slots : calls[c].op \in {"save", "fetch"} =>
          /\ calls[c].attempts # <<>>
          /\ calls[c].attempts[1] = "fn"
          /\ calls[c].pc = "done" /\ "fn" \notin calls[c].failed => calls[c].tier = "fn"
          /\ calls[c].pc = "done" /\ calls[c].failed = {"fn"} => calls[c].tier = "db"
    /\ an.pc \in {"delay", "done"} => an.reply # "none"
    /\ an.pc = "done" /\ an.reply = "descriptive" => an.tier = "fn"

\* after a saveFit that fell through to localStorage, a later saveFit and a later
\* analyzeFit have been served by their remote functions
C13_Witness ==
    /\ \E r \in returned : StartsWithLocal(r.id)
    /\ SaveDone(1) /\ calls[1].tier = "fn"
    /\ an.pc = "done" /\ an.tier = "fn"


\* C14: the value a call returns comes from exactly one tier: a getSavedFits list
\* is the list of the one tier that served it (the Gateway's rows of the session,
\* or the cached records of the session, never both), a saveFit record is the one
\* its serving tier stored, an analyzeFit result is the reply of 'analyze-fit' or
\* an output of the mock generator.
C14_OneTierResult ==
    /\ \A c \in Slots : FetchDone(c) =>
          /\ calls[c].tier \in {"fn", "db"} => calls[c].list \in DbQuery(store, calls[c].session)
          /\ calls[c].tier = "local" =>
                calls[c].list = SelectSeq(cache.items,
                                          LAMBDA o : o.session_id = calls[c].session)
          /\ calls[c].tier = "none" => calls[c].list = <<>>
    /\ \A c \in Slots : SaveDone(c) /\ ~calls[c].threw =>
          /\ calls[c].tier \in {"fn", "db"} =>
                calls[c].rec \in Range(store) /\ calls[c].rec \notin Range(cache.items)
          /\ calls[c].tier = "local" =>
                calls[c].rec \in Range(cache.items) /\ calls[c].rec \notin Range(store)
    /\ an.pc = "done" /\ ~an.threw =>
          /\ an.tier = "fn" => an.result = an.replied.data
          /\ an.tier = "mock" =>
                \E r \in generateMockAnalysis(MockArgs(an.payload), an.result.timestamp) :
                    ~r.threw /\ r.value = an.result

\* getSavedFits has been served from localStorage while the Gateway table held
\* records of the same session
C14_Witness ==
    \E c \in Slots : /\ FetchDone(c) /\ calls[c].tier = "local"
                     /\ calls[c].list # <<>>
                     /\ \E o \in Range(store) : o.session_id = calls[c].session


(***************************************************************************)
(* Properties of concurrent calls (under SpecConcurrent).                  *)
(***************************************************************************)
\* C16: with saveFit and deleteOutfit calls interleaved, every change of
\* localStorage['saved_outfits'] is one call's append to, or one call's removal
\* from, the content the key holds at that moment, so no append or delete is
\* lost: a record a local save returned stays in the list until its id is deleted.
C16_AtomicCacheUpdates ==
    /\ [](\A r \in returned :
             StartsWithLocal(r.id) /\ r.id \notin deletedIds => r \in Range(cache.items))
    /\ [][cache' # cache =>
            \/ \E c \in Slots :
                  /\ calls[c].op = "save" /\ calls[c].pc = "run"
                  /\ calls'[c].pc = "done" /\ calls'[c].tier = "local"
                  /\ cache'.items = Append(ParseCache(cache).items, calls'[c].rec)
            \/ \E c \in Slots :
                  /\ calls'[c].op = "delete" /\ calls'[c].tier = "local"
                  /\ cache'.items =
                        SelectSeq(ParseCache(cache).items, LAMBDA o : o.id # calls'[c].id)]_vars

\* two saveFit calls overlapped: the one started later reached localStorage first,
\* and both records are in the list
C16_Witness ==
    \E c \in Slots, d \in Slots :
        /\ SaveDone(c) /\ calls[c].tier = "local"
        /\ SaveDone(d) /\ calls[d].tier = "local"
        /\ calls[c].data.content < calls[d].data.content
        /\ cache.items = <<calls[d].rec, calls[c].rec>>


(***************************************************************************)
(* Properties of calls whose Gateway may never answer (under SpecHang).    *)
(***************************************************************************)
\* C18: a Gateway call that never responds counts as a failed tier: every
\* analyzeFit, saveFit and getSavedFits call that has started returns in the
\* end, also when a Gateway tier hangs forever.
C18_ReturnsDespiteHang ==
    /\ (calls[1].op \in {"save", "fetch"} /\ calls[1].pc # "done") ~> calls[1].pc = "done"
    /\ (an.pc \notin {"idle", "done"}) ~> an.pc = "done"


(***************************************************************************)
(* Properties of the mock generator, as analyzeFit calls it (under         *)
(* SpecAnalyze).                                                           *)
(***************************************************************************)
\* Object.keys(obj): every own property, those holding null included
ObjectKeys(obj) == DOMAIN obj

\* the slots of the payload that have an image
Populated(p) ==
    {k \in Categories :
        [top |-> p.top_url, topLayer |-> p.top_layer_url, bottom |-> p.bottom_url,
         shoes |-> p.shoes_url, accessories |-> p.accessories_url][k] # Null}

\* the keys of obj that hold a value other than null
NonNullKeys(obj) == {k \in DOMAIN obj : obj[k] # Null}

C21_FallCasualBottomOnly ==
    /\ an.pc = "done" /\ an.tier = "mock"
    /\ an.payload.season = "Fall" /\ an.payload.formality = "casual"
    /\ Populated(an.payload) = {"bottom"}
    => LET r == an.result
       IN  /\ r.top = Null /\ r.topLayer = Null /\ r.shoes = Null
           /\ r.bottom \in {"dark jeans", "corduroy pants", "plaid skirt", "cargo pants"}
           /\ r.colors.bottom = "burgundy"
           /\ r.colors.bottom = SEASON_PRESETS.Fall.recommendedColors[3]
           /\ r.accessories_tags = <<>>
           /\ Len(r.aesthetic) = 3
           /\ r.aesthetic[1] = "earthy" /\ r.aesthetic[2] = "layered"
           /\ r.aesthetic[3] \in {"streetwear", "Y2K", "casual", "everyday", "relaxed"}

\* the mock generator has answered for that outfit with the last bottom candidate
\* and the last casual tag
C21_Witness ==
    /\ an.pc = "done" /\ an.tier = "mock"
    /\ an.payload.season = "Fall" /\ an.payload.formality = "casual"
    /\ Populated(an.payload) = {"bottom"}
    /\ an.result.bottom = "cargo pants"
    /\ an.result.aesthetic = <<"earthy", "layered", "relaxed">>


\* C22: for a season that is not Spring, Summer, Fall or Winter, and for every set
\* of populated slots, the mock generator falls back to one default season for all
\* its content and returns a complete analysis without raising: an analyzeFit call
\* that reached the mock generator with such a season has resolved with its result.
C22_UnknownSeasonFallsBack ==
    /\ an.pc = "done" /\ an.tier # "fn"
    /\ an.payload.season \in {"Autumn", Null}
    => /\ ~an.threw
       /\ an.tier = "mock"
       /\ Len(an.result.aesthetic) = 3


\* C24: whenever the mock generator returns a result, its accessories tag list
\* is the first two entries of the season preset's recommendedAccessories when
\* the accessories slot is populated and is empty otherwise;
\* accessories_description is present exactly when that list is non-empty, and
\* colors.accessories is 'mixed metals' exactly when accessories are present.
C24_AccessoriesOfThePreset ==
    an.pc = "done" /\ an.tier = "mock"
    => LET r == an.result
           list == getSeasonPreset(r.season).recommendedAccessories
           has == "accessories" \in Populated(an.payload)
       IN  /\ r.accessories_tags = IF has THEN <<list[1], list[2]>> ELSE <<>>
           /\ r.accessories = r.accessories_tags
           /\ r.accessories_description # Null <=> r.accessories_tags # <<>>
           /\ r.colors.accessories = (IF has THEN "mixed metals" ELSE Null)

\* the mock generator has answered for a Summer outfit with a top and accessories
C24_Witness ==
    /\ an.pc = "done" /\ an.tier = "mock"
    /\ an.payload.season = "Summer"
    /\ Populated(an.payload) = {"top", "accessories"}
    /\ an.result.accessories_tags = <<"sunglasses", "beach hat">>
    /\ an.result.accessories_description = "Accessorized with sunglasses and beach hat"


(***************************************************************************)
(* Properties of handleAnalyze (under SpecPage).                           *)
(***************************************************************************)
\* C23: when handleAnalyze has finished with images selected, a failed upload
\* has been reported in the page's error, and when every selected upload
\* failed no analysis was requested
C23_UploadFailureSurfaced ==
    page.pc = "done" /\ page.uploads # {} /\ page.uploadFailed # {}
    => /\ page.error # Null
       /\ page.uploadFailed = page.uploads => ~page.analyzed


\* C25: for every recognized season, the aesthetic list of the mock result is the
\* season preset's first two aesthetic tags, in order, followed by one tag of the
\* candidate list keyed by the formality; for a formality outside casual,
\* semi-formal, business-casual and sports the third tag is a casual candidate.
C25_AestheticOfSeasonAndFormality ==
    an.pc = "done" /\ an.tier = "mock" /\ an.result.season \in DOMAIN SEASON_PRESETS
    => LET r == an.result
           tags == SEASON_PRESETS[r.season].aesthetic
           candidates ==
               CASE r.formality = "casual" ->
                        {"streetwear", "Y2K", "casual", "everyday", "relaxed"}
                 [] r.formality = "semi-formal" ->
                        {"smart casual", "chic", "polished", "refined"}
                 [] r.formality = "business-casual" ->
                        {"professional", "corporate", "minimalist", "classic"}
                 [] r.formality = "sports" ->
                        {"athletic", "sporty", "performance", "active"}
                 [] OTHER -> {"streetwear", "Y2K", "casual", "everyday", "relaxed"}
       IN  /\ Len(r.aesthetic) = 3
           /\ r.aesthetic[1] = tags[1] /\ r.aesthetic[2] = tags[2]
           /\ r.aesthetic[3] \in candidates

\* the mock generator has answered for a Winter outfit of formality 'formal', which
\* is no key of the candidate lists, with a casual tag
C25_Witness ==
    /\ an.pc = "done" /\ an.tier = "mock"
    /\ an.payload.season = "Winter" /\ an.payload.formality = "formal"
    /\ an.result.aesthetic = <<"cozy", "layered", "Y2K">>


\* C26: for every recognized season and every set of populated slots, the mock
\* result holds the season preset's palette colors by position: colors.top is the
\* first, colors.topLayer the second, colors.bottom the third and colors.shoes the
\* fourth palette color, each exactly when that slot is populated, and a slot has
\* a garment description if and only if its image URL is present.
C26_PaletteByPosition ==
    an.pc = "done" /\ an.tier = "mock" /\ an.result.season \in DOMAIN SEASON_PRESETS
    => LET r == an.result
           palette == SEASON_PRESETS[r.season].recommendedColors
           slots == Populated(an.payload)
           ColorOf(k, i) == IF k \in slots THEN palette[i] ELSE Null
       IN  /\ r.colors.top = ColorOf("top", 1)
           /\ r.colors.topLayer = ColorOf("topLayer", 2)
           /\ r.colors.bottom = ColorOf("bottom", 3)
           /\ r.colors.shoes = ColorOf("shoes", 4)
           /\ r.top # Null <=> "top" \in slots
           /\ r.topLayer # Null <=> "topLayer" \in slots
           /\ r.bottom # Null <=> "bottom" \in slots
           /\ r.shoes # Null <=> "shoes" \in slots

\* the mock generator has answered for a Spring outfit with a top layer and shoes
\* only
C26_Witness ==
    /\ an.pc = "done" /\ an.tier = "mock"
    /\ an.payload.season = "Spring"
    /\ Populated(an.payload) = {"topLayer", "shoes"}
    /\ an.result.colors.topLayer = "mint green"
    /\ an.result.colors.shoes = "cream"
    /\ an.result.colors.top = Null


\* the fragment of ai_description that stands for slot k of the result r
FragmentOf(r, k) ==
    CASE k = "top" -> r.top
      [] k = "topLayer" -> "with " \o r.topLayer
      [] k = "bottom" -> r.bottom
      [] k = "shoes" -> r.shoes
      [] k = "accessories" ->
             "accessorized with " \o r.accessories[1] \o ", " \o r.accessories[2]

\* C27: the ai_description of the mock result is made of one fragment per
\* populated slot and none for a slot that is not populated, and the fragments
\* stand in the order top, topLayer, bottom, shoes, accessories, for every set of
\* populated slots.
C27_FragmentsInSlotOrder ==
    an.pc = "done" /\ an.tier = "mock"
    => LET r == an.result
           order == <<"top", "topLayer", "bottom", "shoes", "accessories">>
           slots == SelectSeq(order, LAMBDA k : k \in Populated(an.payload))
           fragments == [i \in 1..Len(slots) |-> FragmentOf(r, slots[i])]
       IN  /\ Len(fragments) = Cardinality(Populated(an.payload))
           /\ r.ai_description = Join(fragments, ", ")

\* the mock generator has answered for a Fall outfit with a top, a top layer and
\* accessories
C27_Witness ==
    /\ an.pc = "done" /\ an.tier = "mock"
    /\ Populated(an.payload) = {"top", "topLayer", "accessories"}
    /\ an.result.ai_description
         = "rust sweater, with leather jacket, accessorized with scarf, beanie"


(***************************************************************************)
(* Properties of localStorage['saved_outfits'] across the calls (under     *)
(* SpecCacheOps).                                                          *)
(***************************************************************************)
\* the ids of the records in the list
IdsOf(items) == {o.id : o \in Range(items)}

\* a step in which a deleteOutfit call with a 'local_' id has run
LocalDeleteStep ==
    /\ calls'[1] # calls[1]
    /\ calls'[1].op = "delete" /\ calls'[1].pc = "done"
    /\ StartsWithLocal(calls'[1].id)

\* a step in which the localStorage tier of a saveFit call has stored a record
LocalSaveStep ==
    /\ calls[1].op = "save" /\ calls[1].pc = "run"
    /\ calls'[1].pc = "done" /\ calls'[1].tier = "local"

\* the records of localStorage['saved_outfits'] change only by one record put
\* after the others by the localStorage tier of saveFit, or by the records
\* with the given id taken out by deleteOutfit, the others and their order kept;
\* getSavedFits and analyzeFit leave them as they are
CacheRecordsImmutable ==
    [][/\ cache'.items # cache.items =>
            \/ LocalSaveStep /\ cache'.items = Append(cache.items, calls'[1].rec)
            \/ /\ LocalDeleteStep
               /\ cache'.items = SelectSeq(cache.items, LAMBDA o : o.id # calls'[1].id)
       /\ calls[1].op = "fetch" /\ calls[1].pc = "run" => cache' = cache
       /\ calls'[1].op = "fetch" => cache' = cache
       /\ an' # an => cache' = cache]_vars

\* C28: records in localStorage['saved_outfits'] are immutable: saveFit's local
\* tier only appends one record and leaves the others and their order as they
\* are, deleteOutfit only removes the records with the given id, getSavedFits and
\* analyzeFit leave the cache unchanged; and deleting a 'local_' id that is not in
\* the cache leaves its records unchanged and returns true.
C28_CacheRecordsImmutable ==
    /\ CacheRecordsImmutable
    /\ [][LocalDeleteStep /\ calls'[1].id \notin IdsOf(cache.items)
            => cache'.items = cache.items /\ calls'[1].ok]_vars


\* C29: analyzeFit persists nothing: whichever tier serves it, no step of an
\* analyzeFit call writes the outfits table or localStorage['saved_outfits'], so
\* what getSavedFits would return, from the Gateway or from localStorage, is the
\* same before and after the call.
C29_AnalyzePersistsNothing ==
    [][an' # an =>
          /\ store' = store /\ inserted' = inserted
          /\ cache' = cache
          /\ \A s \in Sessions :
                /\ DbQuery(store', s) = DbQuery(store, s)
                /\ FetchLocal(cache', s) = FetchLocal(cache, s)]_vars

\* an analyzeFit call has been served by the mock generator while the outfits
\* table and localStorage hold a record each
C29_Witness ==
    /\ an.pc = "done" /\ an.tier = "mock"
    /\ Len(store) = 1
    /\ Len(cache.items) = 1


(***************************************************************************)
(* Properties of the first tier of getSavedFits (under Spec).              *)
(***************************************************************************)
\* C30: the first getSavedFits tier can serve a request: while a getSavedFits
\* call awaits the 'getSavedFits' function, the request the client has sent (the
\* session id in the invoke body) passes the function's validation, so that the
\* function, once it runs, answers 200 with its record list.
C30_FirstTierCanServe ==
    \A c \in Slots :
        calls[c].op = "fetch" /\ calls[c].pc = "run" /\ "fn" \in calls[c].inflight
        => \A h \in GetSavedFitsHandler(InvokeRequest([session_id |-> calls[c].session]),
                                        store) : h.status = 200

=============================================================================
